---- MODULE Spec2Model ----
(***************************************************************************)
(* SoundHire rentals: the availability check, the pricing calculation,     *)
(* the breakdown formatter and the create-booking command, over the        *)
(* packages, bookings and settings tables of the store, and the shared     *)
(* store client of db.py.                                                  *)
(*                                                                         *)
(* Dates are the fields <<year, month, day>> of a YYYY-MM-DD string.       *)
(* Currency amounts are in cents.  Customer contact fields of a booking    *)
(* are not modelled: no operation reads them.  The create-booking          *)
(* attempts run on strings that name calendar dates.                       *)
(***************************************************************************)
EXTENDS Integers, Sequences, FiniteSets, TLC

\* Number of consecutive calendar dates the inputs range over.
NumDates == 2

\* Largest number of rows the bookings table holds when the calls of
\* SpecAvail are made.
MaxInitBookings == 1

\* Largest number of rows of the bookings table in SpecSeq.
MaxBookings == 3

\* Largest number of store clients created in SpecDb.
MaxClients == 2

VARIABLES
    packages,   \* packages table: id -> [name, daily_rate, stock]
    bookings,   \* bookings table: sequence of rows, row i has id i
    settings,   \* settings table: set of rows [id, dj_daily_rate]
    attempt,    \* the create-booking attempts: name -> locals of the command
    ret,        \* outcome of the last direct call of a core function
    env,        \* os.environ: SUPABASE_URL and SUPABASE_ANON_KEY
    db          \* db._supabase_client, and the number of clients created

vars == <<packages, bookings, settings, attempt, ret, env, db>>

store == <<packages, bookings, settings>>

---------------------------------------------------------------------------
\* Calendar dates (datetime.strptime(..., "%Y-%m-%d").date() and date - date)

IsLeap(y) == (y % 4 = 0) /\ ((y % 100 # 0) \/ (y % 400 = 0))

DaysInMonth(y, m) ==
    IF m = 2 THEN (IF IsLeap(y) THEN 29 ELSE 28)
    ELSE IF m \in {4, 6, 9, 11} THEN 30 ELSE 31

\* strptime succeeds exactly on the strings that name a calendar date.
IsValidDate(s) ==
    /\ s[1] \in 1..9999
    /\ s[2] \in 1..12
    /\ s[3] \in 1..DaysInMonth(s[1], s[2])

RECURSIVE DaysBeforeMonth(_, _)
DaysBeforeMonth(y, m) ==
    IF m = 1 THEN 0 ELSE DaysBeforeMonth(y, m - 1) + DaysInMonth(y, m - 1)

DaysBeforeYear(y) ==
    (y - 1) * 365 + ((y - 1) \div 4) - ((y - 1) \div 100) + ((y - 1) \div 400)

\* Proleptic Gregorian ordinal of a date; (end - start).days is the
\* difference of two ordinals.
ToOrdinal(d) == DaysBeforeYear(d[1]) + DaysBeforeMonth(d[1], d[2]) + d[3]

\* Order of two dates as the store compares DATE values (.lte / .gte).
DateLE(a, b) ==
    \/ a[1] < b[1]
    \/ a[1] = b[1] /\ a[2] < b[2]
    \/ a[1] = b[1] /\ a[2] = b[2] /\ a[3] <= b[3]

Max(a, b) == IF a >= b THEN a ELSE b

\* The date strings of the inputs: NumDates consecutive dates from
\* 2024-02-29 on (a leap day followed by a month boundary), and one
\* string that is no calendar date.
FirstDate == <<2024, 2, 29>>

DateFields == {<<2024, m, d>> : m \in 2..3, d \in 1..31}

Dates ==
    {d \in DateFields :
        /\ IsValidDate(d)
        /\ ToOrdinal(d) >= ToOrdinal(FirstDate)
        /\ ToOrdinal(d) < ToOrdinal(FirstDate) + NumDates}

BadDate == <<2024, 2, 30>>

DateStrings == Dates \cup {BadDate}

---------------------------------------------------------------------------
\* availability.calculate_rental_days

\* Faulty variant: the day count without the floor of 1.
calculate_rental_days_NoFloor(start_date, end_date) ==
    IF ~IsValidDate(start_date) \/ ~IsValidDate(end_date)
    THEN [raised |-> "ValueError", value |-> 0]
    ELSE [raised |-> "none",
          value |-> (ToOrdinal(end_date) - ToOrdinal(start_date)) + 1]

calculate_rental_days(start_date, end_date) ==
    IF ~IsValidDate(start_date) \/ ~IsValidDate(end_date)
    THEN [raised |-> "ValueError", value |-> 0]
    ELSE LET start == ToOrdinal(start_date)
             end == ToOrdinal(end_date)
             days == (end - start) + 1
         IN  [raised |-> "none", value |-> Max(1, days)]

---------------------------------------------------------------------------
\* models.get_bookings_for_package and models.get_dj_rate

\* Faulty variant: the query without the status filter.
get_bookings_for_package_CountsCancelled(bks, package_id, start_date, end_date) ==
    SelectSeq(bks, LAMBDA b :
        /\ b.package_id = package_id
        /\ DateLE(b.start_date, end_date)
        /\ DateLE(start_date, b.end_date))

\* Faulty variant: a booking starting on the last requested day is missed.
get_bookings_for_package_Exclusive(bks, package_id, start_date, end_date) ==
    SelectSeq(bks, LAMBDA b :
        /\ b.package_id = package_id
        /\ b.status # "cancelled"
        /\ DateLE(b.start_date, end_date) /\ b.start_date # end_date
        /\ DateLE(start_date, b.end_date))

\* Faulty variant: only bookings lying inside the requested range are
\* returned.
get_bookings_for_package_Contained(bks, package_id, start_date, end_date) ==
    SelectSeq(bks, LAMBDA b :
        /\ b.package_id = package_id
        /\ b.status # "cancelled"
        /\ DateLE(start_date, b.start_date)
        /\ DateLE(b.end_date, end_date))

get_bookings_for_package(bks, package_id, start_date, end_date) ==
    SelectSeq(bks, LAMBDA b :
        /\ b.package_id = package_id
        /\ b.status # "cancelled"
        /\ DateLE(b.start_date, end_date)
        /\ DateLE(start_date, b.end_date))

DefaultDjRate == 15000

\* Faulty variant: no default, a missing row gives a rate of zero.
get_dj_rate_NoDefault(sets) ==
    LET data == {r \in sets : r.id = 1}
    IN  IF data # {}
        THEN (CHOOSE r \in data : TRUE).dj_daily_rate
        ELSE 0

get_dj_rate(sets) ==
    LET data == {r \in sets : r.id = 1}
    IN  IF data # {}
        THEN (CHOOSE r \in data : TRUE).dj_daily_rate
        ELSE DefaultDjRate

---------------------------------------------------------------------------
\* availability.is_package_available

RECURSIVE SumQty(_)
SumQty(rows) ==
    IF rows = <<>> THEN 0 ELSE Head(rows).qty + SumQty(Tail(rows))

NotFound(package_id) ==
    [kind |-> "not_found", package_id |-> package_id]

ExceedsStock(name, qty, stock) ==
    [kind |-> "exceeds_stock", name |-> name, qty |-> qty, stock |-> stock]

NotEnough(name, qty, remaining, booked_qty, stock) ==
    [kind |-> "not_enough", name |-> name, qty |-> qty,
     remaining |-> remaining, booked_qty |-> booked_qty, stock |-> stock]

IsAvailable(name, remaining, stock) ==
    [kind |-> "available", name |-> name, remaining |-> remaining,
     stock |-> stock]

is_package_available(pkgs, bks, package_id, start_date, end_date, qty) ==
    IF package_id \notin DOMAIN pkgs
    THEN <<FALSE, NotFound(package_id)>>
    ELSE LET package == pkgs[package_id]
             stock == package.stock
             package_name == package.name
         IN  IF qty > stock
             THEN <<FALSE, ExceedsStock(package_name, qty, stock)>>
             ELSE LET overlapping_bookings ==
                          get_bookings_for_package(bks, package_id,
                                                   start_date, end_date)
                      booked_qty == SumQty(overlapping_bookings)
                      remaining == stock - booked_qty
                  IN  IF qty > remaining
                      THEN <<FALSE, NotEnough(package_name, qty, remaining,
                                              booked_qty, stock)>>
                      ELSE <<TRUE, IsAvailable(package_name, remaining,
                                               stock)>>

---------------------------------------------------------------------------
\* availability.calculate_total_price

\* Faulty variant: the DJ price is not multiplied by the quantity.
calculate_total_price_DjNotScaled(pkgs, sets, package_id, start_date, end_date, qty, include_dj) ==
    IF package_id \notin DOMAIN pkgs
    THEN [raised |-> "ValueError", error |-> NotFound(package_id)]
    ELSE LET rd == calculate_rental_days(start_date, end_date)
             base == pkgs[package_id].daily_rate * rd.value * qty
             dj == IF include_dj THEN get_dj_rate(sets) * rd.value ELSE 0
         IN  IF rd.raised # "none"
             THEN [raised |-> "ValueError", error |-> [kind |-> "bad_date"]]
             ELSE [raised |-> "none", total |-> base + dj,
                   breakdown |->
                       [days |-> rd.value,
                        daily_rate |-> pkgs[package_id].daily_rate,
                        qty |-> qty, base_price |-> base,
                        dj_rate |-> IF include_dj THEN get_dj_rate(sets) ELSE 0,
                        dj_price |-> dj, total |-> base + dj]]

\* Faulty variant: the breakdown carries the DJ rate even without DJ.
calculate_total_price_DjRateAlways(pkgs, sets, package_id, start_date, end_date, qty, include_dj) ==
    IF package_id \notin DOMAIN pkgs
    THEN [raised |-> "ValueError", error |-> NotFound(package_id)]
    ELSE LET rd == calculate_rental_days(start_date, end_date)
             base == pkgs[package_id].daily_rate * rd.value * qty
             dj == IF include_dj THEN get_dj_rate(sets) * rd.value * qty ELSE 0
         IN  IF rd.raised # "none"
             THEN [raised |-> "ValueError", error |-> [kind |-> "bad_date"]]
             ELSE [raised |-> "none", total |-> base + dj,
                   breakdown |->
                       [days |-> rd.value,
                        daily_rate |-> pkgs[package_id].daily_rate,
                        qty |-> qty, base_price |-> base,
                        dj_rate |-> get_dj_rate(sets),
                        dj_price |-> dj, total |-> base + dj]]

\* Faulty variant: a missing package is priced at zero instead of raising.
calculate_total_price_NoRaise(pkgs, sets, package_id, start_date, end_date, qty, include_dj) ==
    IF package_id \notin DOMAIN pkgs
    THEN [raised |-> "none", total |-> 0,
          breakdown |-> [days |-> 0, daily_rate |-> 0, qty |-> qty,
                         base_price |-> 0, dj_rate |-> 0, dj_price |-> 0,
                         total |-> 0]]
    ELSE calculate_total_price_DjRateAlways(pkgs, sets, package_id,
                                            start_date, end_date, qty, FALSE)

calculate_total_price(pkgs, sets, package_id, start_date, end_date, qty, include_dj) ==
    IF package_id \notin DOMAIN pkgs
    THEN [raised |-> "ValueError", error |-> NotFound(package_id)]
    ELSE LET daily_rate == pkgs[package_id].daily_rate
             rd == calculate_rental_days(start_date, end_date)
         IN  IF rd.raised # "none"
             THEN [raised |-> "ValueError", error |-> [kind |-> "bad_date"]]
             ELSE LET days == rd.value
                      base_price == daily_rate * days * qty
                      initial == [days |-> days,
                                  daily_rate |-> daily_rate,
                                  qty |-> qty,
                                  base_price |-> base_price,
                                  dj_rate |-> 0,
                                  dj_price |-> 0,
                                  total |-> base_price]
                      breakdown ==
                          IF include_dj
                          THEN LET dj_rate == get_dj_rate(sets)
                                   dj_price == dj_rate * days * qty
                               IN  [initial EXCEPT
                                       !.dj_rate = dj_rate,
                                       !.dj_price = dj_price,
                                       !.total = base_price + dj_price]
                          ELSE initial
                  IN  [raised |-> "none", total |-> breakdown.total,
                       breakdown |-> breakdown]

---------------------------------------------------------------------------
\* availability.format_price_breakdown

\* An amount rendered by the format spec ":.2f": sign, whole part and the
\* two digits after the point.
Format2f(cents) ==
    LET abs == IF cents < 0 THEN 0 - cents ELSE cents
    IN  [sign |-> IF cents < 0 THEN "-" ELSE "",
         whole |-> abs \div 100,
         frac |-> <<(abs % 100) \div 10, abs % 10>>]

EquipmentLine(breakdown) ==
    [label |-> "Equipment",
     rate |-> Format2f(breakdown.daily_rate),
     days |-> breakdown.days,
     qty |-> breakdown.qty,
     amount |-> Format2f(breakdown.base_price)]

DjServiceLine(breakdown) ==
    [label |-> "DJ Service",
     rate |-> Format2f(breakdown.dj_rate),
     days |-> breakdown.days,
     qty |-> breakdown.qty,
     amount |-> Format2f(breakdown.dj_price)]

TotalLine(breakdown) ==
    [label |-> "Total", amount |-> Format2f(breakdown.total)]

\* The returned text as the sequence of its lines ("\n".join(lines)).
format_price_breakdown(breakdown) ==
    LET lines0 == <<EquipmentLine(breakdown)>>
        lines1 == IF breakdown.dj_price > 0
                  THEN Append(lines0, DjServiceLine(breakdown))
                  ELSE lines0
    IN  Append(lines1, TotalLine(breakdown))

---------------------------------------------------------------------------
\* models.create_booking: one INSERT; the store assigns the next id.

\* Faulty variant: the row is stored as already confirmed.
create_booking_Confirmed(bks, package_id, start_date, end_date, qty, include_dj, total_price) ==
    Append(bks,
           [id |-> Len(bks) + 1,
            package_id |-> package_id,
            start_date |-> start_date,
            end_date |-> end_date,
            qty |-> qty,
            include_dj |-> include_dj,
            total_price |-> total_price,
            status |-> "confirmed"])

create_booking(bks, package_id, start_date, end_date, qty, include_dj, total_price) ==
    Append(bks,
           [id |-> Len(bks) + 1,
            package_id |-> package_id,
            start_date |-> start_date,
            end_date |-> end_date,
            qty |-> qty,
            include_dj |-> include_dj,
            total_price |-> total_price,
            status |-> "pending"])

---------------------------------------------------------------------------
\* models.delete_package: one DELETE; the store refuses it (RESTRICT) while
\* a booking refers to the package, and refuses an insert of a booking
\* that refers to no package.

HasBookings(bks, package_id) ==
    \E i \in DOMAIN bks : bks[i].package_id = package_id

delete_package(pkgs, package_id) ==
    [id \in DOMAIN pkgs \ {package_id} |-> pkgs[id]]

---------------------------------------------------------------------------
\* config.get_settings, db.get_supabase_client and db.reset_client

\* A value of os.getenv: unset (None) or a text; a text is the sequence of
\* its scheme prefix and the rest, the empty text the empty sequence.
Unset == [set |-> FALSE, text |-> <<>>]

Text(t) == [set |-> TRUE, text |-> t]

EnvUrls ==
    {Unset, Text(<<>>), Text(<<"http://", "p.supabase.co">>),
     Text(<<"https://", "p.supabase.co">>)}

EnvKeys == {Unset, Text(<<>>), Text(<<"anon-key">>)}

ConfiguredEnv ==
    [SUPABASE_URL |-> Text(<<"https://", "p.supabase.co">>),
     SUPABASE_ANON_KEY |-> Text(<<"anon-key">>)]

\* "not value": None or the empty string.
Falsy(v) == ~v.set \/ v.text = <<>>

get_settings(e) ==
    LET supabase_url == e.SUPABASE_URL
        supabase_key == e.SUPABASE_ANON_KEY
    IN  IF Falsy(supabase_url) \/ Falsy(supabase_key)
        THEN [raised |-> "ValueError", error |-> "missing_variables"]
        ELSE IF supabase_url.text[1] # "https://"
        THEN [raised |-> "ValueError", error |-> "not_https"]
        ELSE [raised |-> "none",
              value |-> [SUPABASE_URL |-> supabase_url.text,
                         SUPABASE_KEY |-> supabase_key.text]]

\* The module global: client 0 is None; a created client gets the next
\* identity.
NoClient == [client |-> 0, created |-> 0]

\* Faulty variant: a call creates a client even when one is there.
get_supabase_client_NoReuse(d, e, connects) ==
    LET st == get_settings(e)
    IN  IF st.raised # "none"
        THEN [db |-> d, created |-> FALSE,
              out |-> [raised |-> "ValueError",
                       hint |-> "Check your .env file.",
                       cause |-> st.error]]
        ELSE IF ~connects
        THEN [db |-> d, created |-> FALSE,
              out |-> [raised |-> "Exception",
                       hint |-> "Verify your Supabase URL and API key.",
                       cause |-> "create_client"]]
        ELSE [db |-> [client |-> d.created + 1, created |-> d.created + 1],
              created |-> TRUE,
              out |-> [raised |-> "none", value |-> d.created + 1]]

\* connects: whether create_client(url, key) returns or raises.
get_supabase_client(d, e, connects) ==
    IF d.client # 0
    THEN [db |-> d, created |-> FALSE,
          out |-> [raised |-> "none", value |-> d.client]]
    ELSE LET st == get_settings(e)
         IN  IF st.raised # "none"
             THEN [db |-> d, created |-> FALSE,
                   out |-> [raised |-> "ValueError",
                            hint |-> "Check your .env file.",
                            cause |-> st.error]]
             ELSE IF ~connects
             THEN [db |-> d, created |-> FALSE,
                   out |-> [raised |-> "Exception",
                            hint |-> "Verify your Supabase URL and API key.",
                            cause |-> "create_client"]]
             ELSE [db |-> [client |-> d.created + 1,
                           created |-> d.created + 1],
                   created |-> TRUE,
                   out |-> [raised |-> "none", value |-> d.created + 1]]

reset_client(d) == [d EXCEPT !.client = 0]

---------------------------------------------------------------------------
\* Contents of the store and inputs of the operations

\* Seed data: two packages; identifier 3 names no package.
SeedPackages ==
    (1 :> [name |-> "Basic", daily_rate |-> 7500, stock |-> 2]) @@
    (2 :> [name |-> "Deluxe", daily_rate |-> 12000, stock |-> 1])

PackageIds == 1..3

\* Requested quantities: argparse takes any integer; one below zero to one
\* above the largest stock.
Qtys == (0 - 1)..2

\* The settings table holds the row with id 1 or no row at all.
SeedSettings == {[id |-> 1, dj_daily_rate |-> 20000]}

SettingsTables == {{}, SeedSettings}

Statuses == {"pending", "confirmed", "cancelled"}

\* Rows of the bookings table that are there before the modelled
\* operations start: any status, positive quantity, end >= start.
StoredRows ==
    {r \in
        [id : {0}, package_id : DOMAIN SeedPackages, start_date : Dates,
         end_date : Dates, qty : 1..2, include_dj : {FALSE},
         total_price : {0}, status : Statuses] :
        DateLE(r.start_date, r.end_date)}

Renumber(rows) == [i \in DOMAIN rows |-> [rows[i] EXCEPT !.id = i]]

StoredTables ==
    UNION {{Renumber(t) : t \in [1..n -> StoredRows]} : n \in 0..MaxInitBookings}

---------------------------------------------------------------------------
\* cli.command_create_booking: the locals of one attempt and its steps

Attempts == {"A", "B"}

NoBreakdown ==
    [days |-> 0, daily_rate |-> 0, qty |-> 0, base_price |-> 0,
     dj_rate |-> 0, dj_price |-> 0, total |-> 0]

IdleAttempt ==
    [pc |-> "idle", package_id |-> 0, start |-> FirstDate, end |-> FirstDate,
     qty |-> 0, include_dj |-> FALSE, available |-> FALSE,
     message |-> [kind |-> "none"], total_price |-> 0,
     breakdown |-> NoBreakdown, booking_id |-> 0]

\* Lines 148-156: the package must exist, else sys.exit(1).
LookupStep(pkgs, package_id, start, end, qty, include_dj) ==
    [IdleAttempt EXCEPT
        !.pc = IF package_id \in DOMAIN pkgs THEN "check" ELSE "not_found",
        !.package_id = package_id, !.start = start, !.end = end,
        !.qty = qty, !.include_dj = include_dj]

\* Faulty variant: the command goes on to the pricing whatever the check
\* answered.
CheckStep_IgnoresVerdict(pkgs, bks, a) ==
    LET r == is_package_available(pkgs, bks, a.package_id, a.start, a.end,
                                  a.qty)
    IN  [a EXCEPT !.available = r[1], !.message = r[2], !.pc = "price"]

\* Lines 167-181: the availability check, else sys.exit(1).
CheckStep(pkgs, bks, a) ==
    LET r == is_package_available(pkgs, bks, a.package_id, a.start, a.end,
                                  a.qty)
    IN  [a EXCEPT !.available = r[1], !.message = r[2],
                  !.pc = IF r[1] THEN "price" ELSE "unavailable"]

\* Lines 183-192 and 218-220: the price, a ValueError ends the command.
PriceStep(pkgs, sets, a) ==
    LET r == calculate_total_price(pkgs, sets, a.package_id, a.start, a.end,
                                   a.qty, a.include_dj)
    IN  IF r.raised # "none"
        THEN [a EXCEPT !.pc = "error"]
        ELSE [a EXCEPT !.total_price = r.total, !.breakdown = r.breakdown,
                       !.pc = "insert"]

\* Lines 197-210: the insert.
InsertStep(bks, a) ==
    create_booking(bks, a.package_id, a.start, a.end, a.qty, a.include_dj,
                   a.total_price)

StartBooking(p, package_id, start, end, qty, include_dj) ==
    /\ attempt[p].pc = "idle"
    /\ attempt' = [attempt EXCEPT
                      ![p] = LookupStep(packages, package_id, start, end,
                                        qty, include_dj)]
    /\ UNCHANGED <<packages, bookings, settings, ret, env, db>>

CheckAvailability(p) ==
    /\ attempt[p].pc = "check"
    /\ attempt' = [attempt EXCEPT
                      ![p] = CheckStep(packages, bookings, attempt[p])]
    /\ UNCHANGED <<packages, bookings, settings, ret, env, db>>

CalculatePrice(p) ==
    /\ attempt[p].pc = "price"
    /\ attempt' = [attempt EXCEPT
                      ![p] = PriceStep(packages, settings, attempt[p])]
    /\ UNCHANGED <<packages, bookings, settings, ret, env, db>>

\* Variant: an insert conditional on the availability at insert time.
CreateBooking_Rechecks(p) ==
    /\ attempt[p].pc = "insert"
    /\ is_package_available(packages, bookings, attempt[p].package_id,
                            attempt[p].start, attempt[p].end,
                            attempt[p].qty)[1]
    /\ bookings' = InsertStep(bookings, attempt[p])
    /\ attempt' = [attempt EXCEPT ![p].pc = "done",
                                  ![p].booking_id = Len(bookings) + 1]
    /\ UNCHANGED <<packages, settings, ret, env, db>>

\* Lines 197-210 and 221-223: the insert; the store refuses a row whose
\* package is gone, and the exception ends the command.
CreateBooking(p) ==
    /\ attempt[p].pc = "insert"
    /\ IF attempt[p].package_id \in DOMAIN packages
       THEN /\ bookings' = InsertStep(bookings, attempt[p])
            /\ attempt' = [attempt EXCEPT
                              ![p].pc = "done",
                              ![p].booking_id = Len(bookings) + 1]
       ELSE /\ bookings' = bookings
            /\ attempt' = [attempt EXCEPT ![p].pc = "insert_error"]
    /\ UNCHANGED <<packages, settings, ret, env, db>>

\* Another client of the store deletes a package that no booking refers to.
DeletePackage(package_id) ==
    /\ package_id \in DOMAIN packages
    /\ ~HasBookings(bookings, package_id)
    /\ packages' = delete_package(packages, package_id)
    /\ UNCHANGED <<bookings, settings, attempt, ret, env, db>>

\* One whole attempt, run from its first line to its exit with no other
\* attempt in between.
command_create_booking(package_id, start, end, qty, include_dj) ==
    LET a1 == LookupStep(packages, package_id, start, end, qty, include_dj)
        a2 == IF a1.pc = "check" THEN CheckStep(packages, bookings, a1)
              ELSE a1
        a3 == IF a2.pc = "price" THEN PriceStep(packages, settings, a2)
              ELSE a2
    IN  /\ Len(bookings) < MaxBookings
        /\ bookings' = IF a3.pc = "insert" THEN InsertStep(bookings, a3)
                       ELSE bookings
        /\ UNCHANGED <<packages, settings, attempt, ret, env, db>>

---------------------------------------------------------------------------
\* Direct calls of the core functions, one per behaviour

NoRet == [op |-> "none"]

CallRentalDays(start, end) ==
    /\ ret.op = "none"
    /\ ret' = [op |-> "calculate_rental_days", args |-> <<start, end>>,
               out |-> calculate_rental_days(start, end)]
    /\ UNCHANGED <<packages, bookings, settings, attempt, env, db>>

CallGetBookings(package_id, start, end) ==
    /\ ret.op = "none"
    /\ ret' = [op |-> "get_bookings_for_package",
               args |-> <<package_id, start, end>>,
               out |-> get_bookings_for_package(bookings, package_id,
                                                start, end)]
    /\ UNCHANGED <<packages, bookings, settings, attempt, env, db>>

\* Faulty variant: the check leaves a row in the bookings table.
CallIsAvailable_Logs(package_id, start, end, qty) ==
    /\ ret.op = "none"
    /\ ret' = [op |-> "is_package_available",
               args |-> <<package_id, start, end, qty>>,
               out |-> is_package_available(packages, bookings, package_id,
                                            start, end, qty)]
    /\ bookings' = create_booking(bookings, package_id, start, end, 0,
                                  FALSE, 0)
    /\ UNCHANGED <<packages, settings, attempt, env, db>>

CallIsAvailable(package_id, start, end, qty) ==
    /\ ret.op = "none"
    /\ ret' = [op |-> "is_package_available",
               args |-> <<package_id, start, end, qty>>,
               out |-> is_package_available(packages, bookings, package_id,
                                            start, end, qty)]
    /\ UNCHANGED <<packages, bookings, settings, attempt, env, db>>

CallTotalPrice(package_id, start, end, qty, include_dj) ==
    /\ ret.op = "none"
    /\ ret' = [op |-> "calculate_total_price",
               args |-> <<package_id, start, end, qty, include_dj>>,
               out |-> calculate_total_price(packages, settings, package_id,
                                             start, end, qty, include_dj)]
    /\ UNCHANGED <<packages, bookings, settings, attempt, env, db>>

CallGetDjRate ==
    /\ ret.op = "none"
    /\ ret' = [op |-> "get_dj_rate", args |-> <<>>,
               out |-> [raised |-> "none", value |-> get_dj_rate(settings)]]
    /\ UNCHANGED <<packages, bookings, settings, attempt, env, db>>

\* cli.py lines 185-194: the breakdown a price calculation returned is
\* formatted; "after" is the breakdown dict once the formatter returned.
CallFormatBreakdown(package_id, start, end, qty, include_dj) ==
    LET r == calculate_total_price(packages, settings, package_id, start,
                                   end, qty, include_dj)
    IN  /\ ret.op = "none"
        /\ r.raised = "none"
        /\ ret' = [op |-> "format_price_breakdown",
                   args |-> <<r.breakdown>>,
                   out |-> format_price_breakdown(r.breakdown),
                   after |-> r.breakdown]
        /\ UNCHANGED <<packages, bookings, settings, attempt, env, db>>

\* Calls of the client accessor, one after another in one process.
GetSupabaseClient(connects) ==
    LET r == get_supabase_client(db, env, connects)
    IN  /\ r.db.created <= MaxClients
        /\ db' = r.db
        /\ ret' = [op |-> "get_supabase_client", args |-> <<>>,
                   out |-> r.out, created |-> r.created]
        /\ UNCHANGED <<packages, bookings, settings, attempt, env>>

ResetClient ==
    /\ db' = reset_client(db)
    /\ ret' = [op |-> "reset_client", args |-> <<>>]
    /\ UNCHANGED <<packages, bookings, settings, attempt, env>>

\* The environment variables change between two calls.
SetEnv(url, key) ==
    /\ env' = [SUPABASE_URL |-> url, SUPABASE_ANON_KEY |-> key]
    /\ env' # env
    /\ UNCHANGED <<packages, bookings, settings, attempt, ret, db>>

---------------------------------------------------------------------------
\* Specifications

\* Two create-booking attempts whose round trips to the store interleave.
Init ==
    /\ packages = SeedPackages
    /\ bookings = <<>>
    /\ settings = SeedSettings
    /\ attempt = [p \in Attempts |-> IdleAttempt]
    /\ ret = NoRet
    /\ env = ConfiguredEnv
    /\ db = NoClient

Next ==
    \/ \E p \in Attempts, package_id \in PackageIds, start \in Dates,
          end \in Dates, qty \in Qtys, include_dj \in BOOLEAN :
          StartBooking(p, package_id, start, end, qty, include_dj)
    \/ \E p \in Attempts : CheckAvailability(p)
    \/ \E p \in Attempts : CalculatePrice(p)
    \/ \E p \in Attempts : CreateBooking(p)

Spec == Init /\ [][Next]_vars

\* Create-booking attempts run one at a time.
NextSeq ==
    \E package_id \in PackageIds, start \in Dates, end \in Dates,
       qty \in Qtys, include_dj \in BOOLEAN :
       command_create_booking(package_id, start, end, qty, include_dj)

SpecSeq == Init /\ [][NextSeq]_vars

\* One create-booking attempt, step by step, while another client may
\* delete packages; the table is empty or holds one live booking that
\* takes the whole stock of package 2 on the first date.
FlowAttempts == {"A"}

FlowTables ==
    {<<>>,
     <<[id |-> 1, package_id |-> 2, start_date |-> FirstDate,
        end_date |-> FirstDate, qty |-> SeedPackages[2].stock,
        include_dj |-> FALSE, total_price |-> 0, status |-> "confirmed"]>>}

InitFlow ==
    /\ packages = SeedPackages
    /\ bookings \in FlowTables
    /\ settings = SeedSettings
    /\ attempt = [p \in Attempts |-> IdleAttempt]
    /\ ret = NoRet
    /\ env = ConfiguredEnv
    /\ db = NoClient

NextFlow ==
    \/ \E p \in FlowAttempts, package_id \in PackageIds, start \in Dates,
          end \in Dates, qty \in Qtys, include_dj \in BOOLEAN :
          StartBooking(p, package_id, start, end, qty, include_dj)
    \/ \E p \in FlowAttempts : CheckAvailability(p)
    \/ \E p \in FlowAttempts : CalculatePrice(p)
    \/ \E p \in FlowAttempts : CreateBooking(p)
    \/ \E package_id \in DOMAIN SeedPackages : DeletePackage(package_id)

SpecFlow == InitFlow /\ [][NextFlow]_vars

\* The client accessor in one process, under any environment.
InitDb ==
    /\ packages = SeedPackages
    /\ bookings = <<>>
    /\ settings = SeedSettings
    /\ attempt = [p \in Attempts |-> IdleAttempt]
    /\ ret = NoRet
    /\ env \in [SUPABASE_URL : EnvUrls, SUPABASE_ANON_KEY : EnvKeys]
    /\ db = NoClient

NextDb ==
    \/ \E connects \in BOOLEAN : GetSupabaseClient(connects)
    \/ ResetClient
    \/ \E url \in EnvUrls, key \in EnvKeys : SetEnv(url, key)

SpecDb == InitDb /\ [][NextDb]_vars

\* The availability check and the overlap query on a table of bookings.
InitAvail ==
    /\ packages = SeedPackages
    /\ bookings \in StoredTables
    /\ settings = SeedSettings
    /\ attempt = [p \in Attempts |-> IdleAttempt]
    /\ ret = NoRet
    /\ env = ConfiguredEnv
    /\ db = NoClient

NextAvail ==
    \/ \E package_id \in PackageIds, start \in Dates, end \in Dates :
          CallGetBookings(package_id, start, end)
    \/ \E package_id \in PackageIds, start \in Dates, end \in Dates,
          qty \in Qtys :
          CallIsAvailable(package_id, start, end, qty)

SpecAvail == InitAvail /\ [][NextAvail]_vars

\* The pricing functions, and the availability check beside them.
NextPrice ==
    \/ \E start \in DateStrings, end \in DateStrings :
          CallRentalDays(start, end)
    \/ \E package_id \in PackageIds, start \in DateStrings,
          end \in DateStrings, qty \in Qtys, include_dj \in BOOLEAN :
          CallTotalPrice(package_id, start, end, qty, include_dj)
    \/ \E package_id \in PackageIds, start \in Dates, end \in Dates,
          qty \in Qtys :
          CallIsAvailable(package_id, start, end, qty)
    \/ \E package_id \in DOMAIN SeedPackages, start \in Dates,
          end \in Dates, qty \in Qtys, include_dj \in BOOLEAN :
          CallFormatBreakdown(package_id, start, end, qty, include_dj)
    \/ CallGetDjRate

InitPrice ==
    /\ packages = SeedPackages
    /\ bookings = <<>>
    /\ settings \in SettingsTables
    /\ attempt = [p \in Attempts |-> IdleAttempt]
    /\ ret = NoRet
    /\ env = ConfiguredEnv
    /\ db = NoClient

SpecPrice == InitPrice /\ [][NextPrice]_vars

---------------------------------------------------------------------------
\* Properties

\* Units of a package booked on date d: the quantities of its
\* non-cancelled bookings whose [start_date, end_date] contains d.
BookedOn(bks, package_id, d) ==
    SumQty(SelectSeq(bks, LAMBDA b :
        /\ b.package_id = package_id
        /\ b.status # "cancelled"
        /\ ToOrdinal(b.start_date) <= ToOrdinal(d)
        /\ ToOrdinal(d) <= ToOrdinal(b.end_date)))

Oversold(bks, package_id, d) ==
    BookedOn(bks, package_id, d) > SeedPackages[package_id].stock

\* C1: with attempts run one at a time from an empty table, no package is
\* booked beyond its stock on any date, whatever quantities and date
\* ranges the command is given.
C1_StockNeverExceeded ==
    \A package_id \in DOMAIN packages, d \in Dates :
        BookedOn(bookings, package_id, d) <= packages[package_id].stock

\* C2: nothing spans the check, the pricing and the insert: an attempt
\* that got available = TRUE keeps that verdict through pricing, and its
\* insert is enabled whatever the bookings table holds by then.
C2_NothingSpansCheckAndInsert ==
    \A p \in Attempts :
        /\ attempt[p].pc \in {"price", "insert"} => attempt[p].available
        /\ attempt[p].pc = "insert" => ENABLED CreateBooking(p)

\* C2 witness: both attempts saw the whole stock free (so both checks ran
\* before either insert), both inserted positive quantities of the same
\* package on ranges sharing a date, and that date is oversold.
C2_BothPassedThenOversold ==
    /\ \A p \in Attempts :
          /\ attempt[p].pc = "done"
          /\ attempt[p].available
          /\ attempt[p].qty >= 1
          /\ attempt[p].package_id = attempt["A"].package_id
          /\ attempt[p].message.remaining = attempt[p].message.stock
    /\ Len(bookings) = 2
    /\ \E d \in Dates :
          /\ \A p \in Attempts :
                /\ DateLE(attempt[p].start, d)
                /\ DateLE(d, attempt[p].end)
          /\ Oversold(bookings, attempt["A"].package_id, d)

\* C3: for an existing package the check answers available = TRUE exactly
\* when qty <= stock - booked_qty, booked_qty being the sum over the rows
\* the overlap query returns at the time of the check.
C3_AvailableIffFits ==
    [][\A p \in Attempts :
          (attempt[p].pc = "check" /\ attempt'[p].pc # "check") =>
              (attempt'[p].available <=>
                  attempt[p].qty <=
                      packages[attempt[p].package_id].stock
                      - SumQty(get_bookings_for_package(
                            bookings, attempt[p].package_id,
                            attempt[p].start, attempt[p].end)))]_vars

\* The rows of a table, and a table without the rows of some ids.
Rows(bks) == {bks[i] : i \in DOMAIN bks}

Without(bks, ids) == SelectSeq(bks, LAMBDA b : b.id \notin ids)

CancelledIds(bks) == {b.id : b \in {r \in Rows(bks) : r.status = "cancelled"}}

\* The calendar dates from start to end, both included.
DatesWithin(start, end) ==
    {d \in DateFields : IsValidDate(d) /\ DateLE(start, d) /\ DateLE(d, end)}

\* C4: the answer of the availability check is the one it gives on the
\* table with any set of its cancelled bookings taken out.
C4_CancelledNeverCounts ==
    ret.op = "is_package_available" =>
        \A ids \in SUBSET CancelledIds(bookings) :
            ret.out = is_package_available(packages, Without(bookings, ids),
                                           ret.args[1], ret.args[2],
                                           ret.args[3], ret.args[4])

\* C4 witness: the check answered TRUE although a cancelled booking of the
\* same package covers the requested dates with a quantity that, counted,
\* would not leave room for the request.
C4_CancelledOverlapIgnored ==
    /\ ret.op = "is_package_available"
    /\ ret.out[1]
    /\ \E b \in Rows(bookings) :
          /\ b.status = "cancelled"
          /\ b.package_id = ret.args[1]
          /\ DateLE(b.start_date, ret.args[2])
          /\ DateLE(ret.args[3], b.end_date)
          /\ ret.args[4] + b.qty > packages[ret.args[1]].stock

\* C5: the overlap query returns exactly the bookings of the package that
\* are not cancelled and whose days satisfy start_date <= end and
\* end_date >= start; for a request with start <= end it returns no
\* booking that shares no calendar date with the request, and it never
\* returns a booking of another package or a cancelled one.
C5_OverlapQueryExact ==
    ret.op = "get_bookings_for_package" =>
        LET package_id == ret.args[1]
            start == ret.args[2]
            end == ret.args[3]
        IN  /\ ret.out = SelectSeq(bookings, LAMBDA b :
                  /\ b.package_id = package_id
                  /\ b.status # "cancelled"
                  /\ ToOrdinal(b.start_date) <= ToOrdinal(end)
                  /\ ToOrdinal(b.end_date) >= ToOrdinal(start))
            /\ \A b \in Rows(bookings) :
                  (\/ b.package_id # package_id
                   \/ b.status = "cancelled"
                   \/ /\ DateLE(start, end)
                      /\ DatesWithin(start, end)
                             \cap DatesWithin(b.start_date, b.end_date) = {})
                  => b \notin Rows(ret.out)

\* C5 witness: a live booking of the requested package ends the day
\* before the request starts and is not returned.
C5_AdjacentNotCounted ==
    /\ ret.op = "get_bookings_for_package"
    /\ \E b \in Rows(bookings) :
          /\ b.package_id = ret.args[1]
          /\ b.status # "cancelled"
          /\ ToOrdinal(b.end_date) + 1 = ToOrdinal(ret.args[2])
          /\ DateLE(ret.args[2], ret.args[3])
          /\ b \notin Rows(ret.out)

\* C6: a call of is_package_available leaves the packages, bookings and
\* settings tables as they were, whatever it answers.
C6_CheckWritesNothing ==
    [][(ret' # ret /\ ret'.op = "is_package_available") =>
          store' = store]_vars

\* C6 witness: the check has answered "not enough" over a table that
\* holds a booking.
C6_CheckAnsweredOverBookings ==
    /\ ret.op = "is_package_available"
    /\ ret.out[2].kind = "not_enough"
    /\ Len(bookings) > 0

\* C7: for an identifier that names no package the availability check
\* returns (FALSE, not found), the price calculation raises ValueError
\* (not found) and returns neither total nor breakdown, and neither call
\* changes the store.
C7_MissingPackage ==
    /\ [](ret.op = "is_package_available"
            /\ ret.args[1] \notin DOMAIN packages
          => ret.out = <<FALSE, NotFound(ret.args[1])>>)
    /\ [](ret.op = "calculate_total_price"
            /\ ret.args[1] \notin DOMAIN packages
          => /\ ret.out.raised = "ValueError"
             /\ ret.out.error = NotFound(ret.args[1])
             /\ DOMAIN ret.out \cap {"total", "breakdown"} = {})
    /\ [][ret' # ret => store' = store]_vars

\* C7 witness: the price of a missing package was asked for and the call
\* raised.
C7_PriceOfMissingRaised ==
    /\ ret.op = "calculate_total_price"
    /\ ret.args[1] \notin DOMAIN packages
    /\ ret.out.raised = "ValueError"

\* C8: for valid dates the rental days are the days from start to end
\* plus one when start <= end, and 1 when end < start; never less than 1.
C8_RentalDays ==
    (/\ ret.op = "calculate_rental_days"
     /\ IsValidDate(ret.args[1])
     /\ IsValidDate(ret.args[2])) =>
        LET start == ret.args[1]
            end == ret.args[2]
        IN  /\ ret.out.raised = "none"
            /\ ret.out.value >= 1
            /\ ret.out.value =
                  IF DateLE(start, end)
                  THEN Cardinality(DatesWithin(start, end) \ {start}) + 1
                  ELSE 1

\* C8 witness: a range whose end is before its start gave 1.
C8_ReversedRangeGivesOne ==
    /\ ret.op = "calculate_rental_days"
    /\ IsValidDate(ret.args[1])
    /\ IsValidDate(ret.args[2])
    /\ ~DateLE(ret.args[1], ret.args[2])
    /\ ret.out.value = 1

\* C9: for an existing package (and valid dates) the total is base_price +
\* dj_price with base_price = daily_rate * days * qty and dj_price =
\* dj_rate * days * qty when include_dj, 0 otherwise; the returned total
\* is the breakdown's total.
C9_TotalPrice ==
    (/\ ret.op = "calculate_total_price"
     /\ ret.args[1] \in DOMAIN packages
     /\ IsValidDate(ret.args[2])
     /\ IsValidDate(ret.args[3])) =>
        LET days == calculate_rental_days(ret.args[2], ret.args[3]).value
            qty == ret.args[4]
            base == packages[ret.args[1]].daily_rate * days * qty
            dj_rate == IF settings = {} THEN DefaultDjRate
                       ELSE (CHOOSE r \in settings : r.id = 1).dj_daily_rate
            dj == IF ret.args[5] THEN dj_rate * days * qty ELSE 0
        IN  /\ ret.out.raised = "none"
            /\ ret.out.total = base + dj
            /\ ret.out.total = ret.out.breakdown.total
            /\ ret.out.breakdown.base_price = base
            /\ ret.out.breakdown.dj_price = dj

\* C9 witness: a price with DJ service at the stored rate, for several
\* days and several units.
C9_PricedWithDj ==
    /\ ret.op = "calculate_total_price"
    /\ ret.out.raised = "none"
    /\ ret.args[5]
    /\ settings # {}
    /\ ret.args[4] >= 2
    /\ ret.out.breakdown.days >= 2
    /\ ret.out.breakdown.dj_price > 0
    /\ ret.out.total = ret.out.breakdown.base_price
                       + ret.out.breakdown.dj_price

\* C10: every breakdown has exactly the seven fields, with or without DJ;
\* without DJ its dj_rate and dj_price are zero and its total is the
\* base price.
C10_BreakdownFields ==
    (ret.op = "calculate_total_price" /\ ret.out.raised = "none") =>
        /\ DOMAIN ret.out.breakdown =
              {"days", "daily_rate", "qty", "base_price", "dj_rate",
               "dj_price", "total"}
        /\ ~ret.args[5] =>
              /\ ret.out.breakdown.dj_rate = 0
              /\ ret.out.breakdown.dj_price = 0
              /\ ret.out.breakdown.total = ret.out.breakdown.base_price

\* C10 witness: a price without DJ service while the settings table
\* holds a rate.
C10_PricedWithoutDj ==
    /\ ret.op = "calculate_total_price"
    /\ ret.out.raised = "none"
    /\ ~ret.args[5]
    /\ settings # {}
    /\ ret.args[4] >= 1
    /\ ret.out.breakdown.dj_rate = 0

\* C11: every booking the create-booking flow has persisted has a
\* quantity of at least 1 and at most the stock of its package.
C11_PersistedQtyInRange ==
    \A b \in Rows(bookings) :
        /\ b.qty >= 1
        /\ b.qty <= packages[b.package_id].stock

\* C12: every booking the create-booking flow has persisted has
\* end_date >= start_date.
C12_PersistedEndNotBeforeStart ==
    \A b \in Rows(bookings) :
        ToOrdinal(b.end_date) >= ToOrdinal(b.start_date)

\* C13: the formatted breakdown begins with exactly one Equipment line and
\* ends with exactly one Total line; it has a DJ Service line between them
\* when dj_price is not 0 (3 lines) and none when dj_price = 0 (2 lines);
\* the breakdown is left as it was.
C13_FormatLines ==
    ret.op = "format_price_breakdown" =>
        LET breakdown == ret.args[1]
            lines == ret.out
            labels == [i \in DOMAIN lines |-> lines[i].label]
        IN  /\ labels = IF breakdown.dj_price = 0
                        THEN <<"Equipment", "Total">>
                        ELSE <<"Equipment", "DJ Service", "Total">>
            /\ ret.after = breakdown

\* C14: get_dj_rate returns the dj_daily_rate of the settings row when
\* there is one and 150.00 when there is none, without raising, and it
\* leaves the store as it was.
C14_DjRateOrDefault ==
    /\ [](ret.op = "get_dj_rate" =>
            /\ ret.out.raised = "none"
            /\ \A r \in settings :
                  r.id = 1 => ret.out.value = r.dj_daily_rate
            /\ (~\E r \in settings : r.id = 1) => ret.out.value = 15000)
    /\ [][(ret' # ret /\ ret'.op = "get_dj_rate") => store' = store]_vars

\* C14 witness: the rate was asked for with no settings row and the
\* default came back.
C14_DefaultReturned ==
    /\ ret.op = "get_dj_rate"
    /\ settings = {}
    /\ ret.out.value = 15000

\* C15: the insert of an attempt adds one row, with status "pending" and
\* with the package_id, start_date, end_date, qty and include_dj of the
\* attempt; its total_price is the total calculate_total_price returns
\* for those arguments; the rows already there stay as they were.
C15_InsertedRowAsCalled ==
    [][\A p \in Attempts :
          (attempt[p].pc = "insert" /\ attempt'[p].pc = "done") =>
              LET a == attempt[p]
                  n == Len(bookings)
                  b == bookings'[n + 1]
              IN  /\ Len(bookings') = n + 1
                  /\ SubSeq(bookings', 1, n) = bookings
                  /\ b.status = "pending"
                  /\ b.package_id = a.package_id
                  /\ b.start_date = a.start
                  /\ b.end_date = a.end
                  /\ b.qty = a.qty
                  /\ b.include_dj = a.include_dj
                  /\ b.total_price =
                        calculate_total_price(packages, settings,
                                              a.package_id, a.start, a.end,
                                              a.qty, a.include_dj).total
                  /\ attempt'[p].booking_id = b.id]_vars

\* C15 witness: an attempt for two units over two days with DJ service
\* has inserted its row, pending, priced at the breakdown's total.
C15_InsertedWithDj ==
    \E p \in Attempts :
        /\ attempt[p].pc = "done"
        /\ attempt[p].include_dj
        /\ attempt[p].qty = 2
        /\ attempt[p].breakdown.days = 2
        /\ LET b == bookings[attempt[p].booking_id]
           IN  /\ b.status = "pending"
               /\ b.qty = 2
               /\ b.include_dj
               /\ b.total_price = attempt[p].breakdown.total
               /\ b.total_price = (7500 + 20000) * 2 * 2

\* C16: an attempt goes from the lookup to the availability check, from
\* a check that answered TRUE to the pricing, from a pricing that returned
\* to the insert, and from the insert to its end, in that order and in
\* no other; the bookings table changes only in the insert step of an
\* attempt whose check answered TRUE and whose pricing returned, and then
\* by one row; an attempt that has ended takes no further step; an
\* attempt that ended because the package is missing, the check answered
\* FALSE, or the pricing or the insert raised leaves the table as it was,
\* and one that ended with its insert leaves it one row longer.
C16_CheckPriceInsertOnce ==
    /\ [][\A p \in Attempts :
            LET a == attempt[p]
                a2 == attempt'[p]
            IN  /\ a2.pc # a.pc =>
                      <<a.pc, a2.pc>> \in
                          {<<"idle", "check">>, <<"idle", "not_found">>,
                           <<"check", "price">>, <<"check", "unavailable">>,
                           <<"price", "insert">>, <<"price", "error">>,
                           <<"insert", "done">>, <<"insert", "insert_error">>}
                /\ (a.pc = "check" /\ a2.pc = "price") => a2.available
                /\ (a.pc = "check" /\ a2.pc = "unavailable") => ~a2.available
                /\ (a.pc = "price" /\ a2.pc = "insert") =>
                      a2.breakdown.days >= 1]_vars
    /\ [][bookings' # bookings =>
            /\ Len(bookings') = Len(bookings) + 1
            /\ SubSeq(bookings', 1, Len(bookings)) = bookings
            /\ \E p \in Attempts :
                  /\ attempt[p].pc = "insert"
                  /\ attempt'[p].pc = "done"
                  /\ attempt[p].available
                  /\ attempt[p].breakdown.days >= 1]_vars
    /\ [](\A p \in FlowAttempts :
            attempt[p].pc \in {"not_found", "unavailable", "error",
                               "insert_error", "done"} =>
                ~ENABLED (\/ \E package_id \in PackageIds, start \in Dates,
                                end \in Dates, qty \in Qtys,
                                include_dj \in BOOLEAN :
                                StartBooking(p, package_id, start, end, qty,
                                             include_dj)
                          \/ CheckAvailability(p)
                          \/ CalculatePrice(p)
                          \/ CreateBooking(p)))
    /\ [](\A p \in FlowAttempts :
            /\ attempt[p].pc \in {"not_found", "unavailable", "error",
                                  "insert_error"} =>
                  /\ bookings \in FlowTables
                  /\ attempt[p].booking_id = 0
            /\ attempt[p].pc = "done" =>
                  /\ Len(bookings) >= 1
                  /\ SubSeq(bookings, 1, Len(bookings) - 1) \in FlowTables
                  /\ attempt[p].booking_id = Len(bookings))

\* C16 witness: the check answered TRUE, the package was deleted before
\* the pricing, the pricing raised, and nothing was inserted.
C16_PricingRaisedNothingInserted ==
    /\ attempt["A"].pc = "error"
    /\ attempt["A"].available
    /\ attempt["A"].package_id \notin DOMAIN packages
    /\ bookings \in FlowTables

\* C17: a call of get_supabase_client while a client is set returns that
\* client, creates none and leaves the shared client as it is; a call
\* while none is set attempts the creation: when it succeeds a new client
\* is created, stored and returned, and when it fails the call raises
\* ValueError with the configuration hint (bad environment) or Exception
\* with the credentials hint (create_client failed) and the shared client
\* stays unset; a client is created only by a call made while none is
\* set, and the shared client is unset only by reset_client; while none is
\* set and the environment is good, a call can create one again.
C17_ClientCreatedOnce ==
    /\ [][(env' = env /\ ret'.op = "get_supabase_client") =>
            IF db.client # 0
            THEN /\ ret'.out = [raised |-> "none", value |-> db.client]
                 /\ ~ret'.created
                 /\ db' = db
            ELSE /\ ret'.out.raised = "none" =>
                       /\ env = ConfiguredEnv
                       /\ ret'.created
                       /\ ret'.out.value # 0
                       /\ db'.client = ret'.out.value
                       /\ db'.created = db.created + 1
                 /\ ret'.out.raised # "none" =>
                       /\ ~ret'.created
                       /\ db' = db
                       /\ ret'.out.raised \in {"ValueError", "Exception"}
                       /\ ret'.out.raised = "ValueError" =>
                             ret'.out.hint = "Check your .env file."
                       /\ ret'.out.raised = "Exception" =>
                             ret'.out.hint =
                                 "Verify your Supabase URL and API key."
                 /\ env # ConfiguredEnv => ret'.out.raised = "ValueError"]_vars
    /\ [][db'.created # db.created =>
            /\ db.client = 0
            /\ ret'.op = "get_supabase_client"
            /\ db'.created = db.created + 1]_vars
    /\ [][db'.client # db.client =>
            \/ db.client = 0 /\ ret'.op = "get_supabase_client"
            \/ db'.client = 0 /\ ret'.op = "reset_client"]_vars
    /\ []((db.client = 0 /\ env = ConfiguredEnv /\ db.created < MaxClients)
            => ENABLED (GetSupabaseClient(TRUE) /\ db'.client # 0))

\* C17 witness: after a reset and a second creation, a call made under an
\* environment that is no longer configured returned the shared client
\* without creating one.
C17_ReusedWithoutCreating ==
    /\ ret.op = "get_supabase_client"
    /\ ret.out.raised = "none"
    /\ ~ret.created
    /\ db.created = 2
    /\ db.client = ret.out.value
    /\ env # ConfiguredEnv

====
